---------------------------- MODULE Spec2Model ----------------------------
(***************************************************************************)
(* A model of the health aggregation of go-corefx (healthfx.go): NewHealth, *)
(* Health.Liveness and Health.Readiness over a list of HealthIndicators,    *)
(* some of which implement ReadinessThresholder.                            *)
(*                                                                          *)
(* Spec      one caller: every probe is one action, the whole method.       *)
(* ConcSpec  several goroutines inside probes at once: one action per loop  *)
(*           iteration, the atomic.Int32 operation being the only access to *)
(*           shared mutable state in an iteration.                          *)
(*                                                                          *)
(* Go's int is 64 bits wide on the usual builds and TLC's integers are 32   *)
(* bits wide, so an int is kept as two limbs, [hi, lo], standing for        *)
(* hi * 2^31 + lo with 0 <= lo < 2^31.  An int32 is a TLC integer.          *)
(***************************************************************************)
EXTENDS Integers, Sequences, FiniteSets, TLC

VARIABLES
    decl,               \* environment: what each indicator's ReadinessThreshold() answers
    checkers,           \* Health.checkers
    maxNotReadyConfig,  \* Health.maxNotReadyConfig
    notReadyCount,      \* Health.notReadyCount (the values of the atomic.Int32s)
    last,               \* the arguments and results of the probe that returned last
    streak,             \* history: Readiness failures of each indicator since its last success
    gor,                \* ConcSpec: the frame of each goroutine inside a probe
    started,            \* ConcSpec: number of probes started
    log                 \* ConcSpec, history: the updates of each counter, in the order they took effect

vars == <<decl, checkers, maxNotReadyConfig, notReadyCount, last, streak, gor, started, log>>

----------------------------------------------------------------------------
(* Bounds *)

\* Thresholds -1 .. MaxThreshold are declared (and one that needs more than 32 bits).
MaxThreshold == 1

\* No streak of Readiness failures grows beyond MaxFail.
MaxFail == 3

\* ConcSpec: at most MaxProbes probes are started.
MaxProbes == 3

----------------------------------------------------------------------------
(* Integers *)

MaxInt32 == 2147483647

MinInt32 == (-2147483647) - 1

\* The Go int n, for n in the range of an int32.
GoInt(n) == IF n >= 0 THEN [hi |-> 0, lo |-> n]
                      ELSE [hi |-> -1, lo |-> (n + MaxInt32) + 1]

\* The Go int 2^31, the least one that an int32 cannot hold.
TwoTo31 == [hi |-> 1, lo |-> 0]

\* v >= 0 on Go ints.
IsNonNegative(v) == v.hi >= 0

\* The conversion int32(v) of a Go int: the low 32 bits, read as two's complement.
Int32(v) == IF v.hi % 2 = 0 THEN v.lo ELSE (v.lo - MaxInt32) - 1

\* c > v for an int32 c and a Go int v, both taken as mathematical integers.
Exceeds(c, v) ==
    IF v.hi >= 1 THEN FALSE
    ELSE IF v.hi <= -2 THEN TRUE
    ELSE IF v.hi = 0 THEN c > v.lo
    ELSE c > (v.lo - MaxInt32) - 1

\* atomic.Int32: Load, Store and Add are each one indivisible operation.
Load(c) == c

Store(c, v) == v

\* A lost increment.
AddDropped(c, d) == c

Add(c, d) ==
    IF d >= 0 /\ c > MaxInt32 - d THEN MinInt32 + ((c - MaxInt32) + (d - 1))
    ELSE c + d

----------------------------------------------------------------------------
(* Indicators, errors and statuses *)

Nil == "nil"

ErrUnavailable == "err unavailable"

\* An error of an indicator's own.
ErrProbe == "connection refused"

Errors == {Nil, ErrProbe, ErrUnavailable}

HealthStatusUp == "UP"

HealthStatusDown == "DOWN"

HealthUnavailable == "UNAVAILABLE"

HealthStatus(status, err) == [Status |-> status, Err |-> err]

EmptyMap == [x \in {} |-> x]

Range(s) == {s[k] : k \in DOMAIN s}

\* What an indicator declares: whether it implements ReadinessThresholder and
\* what its first and its second call of ReadinessThreshold() return.
NoThresholder == [impl |-> FALSE, first |-> GoInt(-1), second |-> GoInt(-1)]

DeclaredValues == {GoInt(n) : n \in -1 .. MaxThreshold} \cup {TwoTo31}

\* An indicator of the model answers the same value twice, or 0 and then any value.
Declarations ==
    {NoThresholder} \cup
    {[impl |-> TRUE, first |-> a, second |-> a] : a \in DeclaredValues} \cup
    {[impl |-> TRUE, first |-> GoInt(0), second |-> b] : b \in DeclaredValues}

CheckerLists == {<<>>, <<"db">>, <<"db", "cache">>}


----------------------------------------------------------------------------
(* NewHealth *)

\* The first loop without its test of the value: every ReadinessThresholder.
AllThresholders(p, d) == SelectSeq(p, LAMBDA s : d[s].impl)

\* The first loop of NewHealth: the indicators that implement ReadinessThresholder
\* and whose (first) call of ReadinessThreshold() returns a value >= 0, in order.
thresholdedReadinessReporters(p, d) ==
    SelectSeq(p, LAMBDA s : d[s].impl /\ IsNonNegative(d[s].first))

\* The value the second loop of NewHealth stores for s: what a second call of
\* ReadinessThreshold() returns.
StoredThreshold(d, s) == d[s].second

\* NewHealth(p), the indicators declaring d.
NewHealth(p, d) ==
    LET reporters == Range(thresholdedReadinessReporters(p, d))
    IN  [checkers          |-> p,
         maxNotReadyConfig |-> [s \in reporters |-> StoredThreshold(d, s)],
         notReadyCount     |-> [s \in reporters |-> 0]]

----------------------------------------------------------------------------
(* Health.Liveness *)

\* One iteration of the loop of Liveness: indicator l, whose Liveness call
\* returned err; acc holds the locals liveness and res, the calls made so far
\* and the counters.
LivenessIter(l, err, acc) ==
    LET called == [acc EXCEPT !.calls = Append(@, <<"Liveness", l>>)]
    IN  IF err # Nil
        THEN [called EXCEPT !.liveness = FALSE,
                            !.res = (l :> HealthStatus(HealthStatusDown, err)) @@ @]
        ELSE IF /\ l \in DOMAIN maxNotReadyConfig
                /\ Load(called.notReadyCount[l]) > Int32(maxNotReadyConfig[l])
        THEN [called EXCEPT !.liveness = FALSE,
                            !.res = (l :> HealthStatus(HealthStatusDown, ErrUnavailable)) @@ @]
        ELSE [called EXCEPT !.res = (l :> HealthStatus(HealthStatusUp, Nil)) @@ @]

RECURSIVE LivenessLoopBreaks(_, _, _)
\* The loop leaving at the first indicator whose own check fails.
LivenessLoopBreaks(k, errs, acc) ==
    IF k > Len(checkers) THEN acc
    ELSE IF errs[checkers[k]] # Nil
    THEN LivenessIter(checkers[k], errs[checkers[k]], acc)
    ELSE LivenessLoopBreaks(k + 1, errs, LivenessIter(checkers[k], errs[checkers[k]], acc))

RECURSIVE LivenessLoop(_, _, _)
\* for _, l := range p.checkers, from the k-th indicator on.
LivenessLoop(k, errs, acc) ==
    IF k > Len(checkers) THEN acc
    ELSE LivenessLoop(k + 1, errs, LivenessIter(checkers[k], errs[checkers[k]], acc))

\* Liveness consuming what it reports: the counter of an indicator reported beyond
\* its threshold is set back to 0.
LivenessProbeConsuming(errs) ==
    LET r == LivenessLoop(1, errs, [liveness |-> TRUE, res |-> EmptyMap, calls |-> <<>>,
                                    notReadyCount |-> notReadyCount])
    IN  [r EXCEPT !.notReadyCount =
            [s \in DOMAIN @ |->
                IF errs[s] = Nil /\ r.res[s].Status # HealthStatusUp THEN 0 ELSE @[s]]]

\* p.Liveness(ctx), the indicators' Liveness calls returning errs: the returned
\* pair, the calls made and the counters when it returns.
LivenessProbe(errs) ==
    LivenessLoop(1, errs, [liveness |-> TRUE, res |-> EmptyMap, calls |-> <<>>,
                           notReadyCount |-> notReadyCount])

----------------------------------------------------------------------------
(* Health.Readiness *)

\* The iteration assigning the outcome of this indicator to readiness instead of
\* only ever clearing it.
ReadinessIterLastWins(r, err, acc) ==
    LET called == [acc EXCEPT !.calls = Append(@, <<"Readiness", r>>),
                              !.readiness = (err = Nil)]
    IN  IF err = Nil
        THEN [called EXCEPT
                !.res = (r :> HealthStatus(HealthStatusUp, Nil)) @@ @,
                !.notReadyCount =
                    IF r \in DOMAIN @ THEN [@ EXCEPT ![r] = Store(@, 0)] ELSE @]
        ELSE [called EXCEPT
                !.res = (r :> HealthStatus(HealthUnavailable, err)) @@ @,
                !.notReadyCount =
                    IF r \in DOMAIN @ THEN [@ EXCEPT ![r] = Add(@, 1)] ELSE @]

\* The iteration reporting a failing indicator the way Liveness reports one beyond
\* its threshold: DOWN with the sentinel, once the counter is above the threshold.
ReadinessIterSentinel(r, err, acc) ==
    LET called == [acc EXCEPT !.calls = Append(@, <<"Readiness", r>>)]
    IN  IF err = Nil
        THEN [called EXCEPT
                !.res = (r :> HealthStatus(HealthStatusUp, Nil)) @@ @,
                !.notReadyCount =
                    IF r \in DOMAIN @ THEN [@ EXCEPT ![r] = Store(@, 0)] ELSE @]
        ELSE [called EXCEPT
                !.readiness = FALSE,
                !.res = (r :> IF /\ r \in DOMAIN maxNotReadyConfig
                                 /\ Add(acc.notReadyCount[r], 1) > Int32(maxNotReadyConfig[r])
                              THEN HealthStatus(HealthStatusDown, ErrUnavailable)
                              ELSE HealthStatus(HealthUnavailable, err)) @@ @,
                !.notReadyCount =
                    IF r \in DOMAIN @ THEN [@ EXCEPT ![r] = Add(@, 1)] ELSE @]

\* One iteration of the loop of Readiness: indicator r, whose Readiness call
\* returned err.
ReadinessIter(r, err, acc) ==
    LET called == [acc EXCEPT !.calls = Append(@, <<"Readiness", r>>)]
    IN  IF err = Nil
        THEN [called EXCEPT
                !.res = (r :> HealthStatus(HealthStatusUp, Nil)) @@ @,
                !.notReadyCount =
                    IF r \in DOMAIN @ THEN [@ EXCEPT ![r] = Store(@, 0)] ELSE @]
        ELSE [called EXCEPT
                !.readiness = FALSE,
                !.res = (r :> HealthStatus(HealthUnavailable, err)) @@ @,
                !.notReadyCount =
                    IF r \in DOMAIN @ THEN [@ EXCEPT ![r] = Add(@, 1)] ELSE @]

RECURSIVE ReadinessLoopRetries(_, _, _)
\* The loop calling an indicator a second time when its Readiness call fails.
ReadinessLoopRetries(k, errs, acc) ==
    IF k > Len(checkers) THEN acc
    ELSE LET once == ReadinessIter(checkers[k], errs[checkers[k]], acc)
         IN  ReadinessLoopRetries(k + 1, errs,
                 IF errs[checkers[k]] = Nil THEN once
                 ELSE ReadinessIter(checkers[k], errs[checkers[k]], once))

RECURSIVE ReadinessLoop(_, _, _)
\* for _, r := range p.checkers, from the k-th indicator on.
ReadinessLoop(k, errs, acc) ==
    IF k > Len(checkers) THEN acc
    ELSE ReadinessLoop(k + 1, errs, ReadinessIter(checkers[k], errs[checkers[k]], acc))

\* p.Readiness(ctx), the indicators' Readiness calls returning errs.
ReadinessProbe(errs) ==
    ReadinessLoop(1, errs, [readiness |-> TRUE, res |-> EmptyMap, calls |-> <<>>,
                            notReadyCount |-> notReadyCount])

----------------------------------------------------------------------------
(* One caller *)

NoProbe == [probe |-> "none", errs |-> EmptyMap, ok |-> TRUE, res |-> EmptyMap,
            calls |-> <<>>]

Goroutines == {"g1", "g2"}

\* The frame of a goroutine that is in no probe.
IdleFrame == [pc |-> "idle", k |-> 0, ok |-> TRUE, res |-> EmptyMap, calls |-> <<>>]

\* The state NewHealth returns, for every list of indicators and every way they
\* declare thresholds.
Init ==
    \E p \in CheckerLists :
        \E d \in [Range(p) -> Declarations] :
            LET h == NewHealth(p, d)
            IN  /\ decl = d
                /\ checkers = h.checkers
                /\ maxNotReadyConfig = h.maxNotReadyConfig
                /\ notReadyCount = h.notReadyCount
                /\ last = NoProbe
                /\ streak = [s \in Range(p) |-> 0]
                /\ gor = [g \in Goroutines |-> IdleFrame]
                /\ started = 0
                /\ log = [s \in Range(p) |-> <<>>]

\* The streaks after a Readiness probe whose calls returned errs.
StreakAfter(errs) ==
    [s \in DOMAIN streak |-> IF errs[s] = Nil THEN 0 ELSE streak[s] + 1]

\* A call of p.Liveness.
Liveness ==
    \E errs \in [Range(checkers) -> Errors] :
        LET r == LivenessProbe(errs)
        IN  /\ last' = [probe |-> "Liveness", errs |-> errs, ok |-> r.liveness,
                        res |-> r.res, calls |-> r.calls]
            /\ notReadyCount' = r.notReadyCount
            /\ UNCHANGED <<decl, checkers, maxNotReadyConfig, streak, gor, started, log>>

\* A call of p.Readiness.
Readiness ==
    \E errs \in [Range(checkers) -> Errors] :
        LET r == ReadinessProbe(errs)
        IN  /\ \A s \in Range(checkers) : errs[s] # Nil => streak[s] < MaxFail
            /\ last' = [probe |-> "Readiness", errs |-> errs, ok |-> r.readiness,
                        res |-> r.res, calls |-> r.calls]
            /\ notReadyCount' = r.notReadyCount
            /\ streak' = StreakAfter(errs)
            /\ UNCHANGED <<decl, checkers, maxNotReadyConfig, gor, started, log>>

Next == Liveness \/ Readiness

Spec == Init /\ [][Next]_vars

----------------------------------------------------------------------------
(* Several goroutines *)

\* The declarations of ConcSpec: no threshold, or the same threshold every time.
SteadyDeclarations ==
    {NoThresholder} \cup
    {[impl |-> TRUE, first |-> GoInt(n), second |-> GoInt(n)] : n \in 0 .. MaxThreshold}

ConcInit ==
    \E p \in CheckerLists \ {<<>>} :
        \E d \in [Range(p) -> SteadyDeclarations] :
            LET h == NewHealth(p, d)
            IN  /\ decl = d
                /\ checkers = h.checkers
                /\ maxNotReadyConfig = h.maxNotReadyConfig
                /\ notReadyCount = h.notReadyCount
                /\ last = NoProbe
                /\ streak = [s \in Range(p) |-> 0]
                /\ gor = [g \in Goroutines |-> IdleFrame]
                /\ started = 0
                /\ log = [s \in Range(p) |-> <<>>]

\* Goroutine g calls p.Readiness: the locals before the loop.
StartReadiness(g) ==
    /\ gor[g].pc = "idle"
    /\ started < MaxProbes
    /\ gor' = [gor EXCEPT ![g] = [IdleFrame EXCEPT !.pc = "Readiness", !.k = 1]]
    /\ started' = started + 1
    /\ UNCHANGED <<decl, checkers, maxNotReadyConfig, notReadyCount, last, streak, log>>

\* Goroutine g calls p.Liveness: the locals before the loop.
StartLiveness(g) ==
    /\ gor[g].pc = "idle"
    /\ started < MaxProbes
    /\ gor' = [gor EXCEPT ![g] = [IdleFrame EXCEPT !.pc = "Liveness", !.k = 1]]
    /\ started' = started + 1
    /\ UNCHANGED <<decl, checkers, maxNotReadyConfig, notReadyCount, last, streak, log>>

\* One iteration of the loop of Readiness in goroutine g: the indicator's call
\* returns, and the counter is stored to or added to in one atomic operation.
ReadinessStep(g) ==
    /\ gor[g].pc = "Readiness"
    /\ gor[g].k <= Len(checkers)
    /\ \E err \in {Nil, ErrProbe} :
           LET r == checkers[gor[g].k]
               a == ReadinessIter(r, err, [readiness |-> gor[g].ok, res |-> gor[g].res,
                                           calls |-> gor[g].calls,
                                           notReadyCount |-> notReadyCount])
           IN  /\ gor' = [gor EXCEPT ![g] = [pc |-> "Readiness", k |-> gor[g].k + 1,
                                             ok |-> a.readiness, res |-> a.res,
                                             calls |-> a.calls]]
               /\ notReadyCount' = a.notReadyCount
               /\ log' = IF r \in DOMAIN notReadyCount
                         THEN [log EXCEPT ![r] =
                                  Append(@, <<g, IF err = Nil THEN "Store" ELSE "Add">>)]
                         ELSE log
    /\ UNCHANGED <<decl, checkers, maxNotReadyConfig, last, streak, started>>

\* One iteration of the loop of Liveness in goroutine g: the indicator's call
\* returns, and the counter is loaded in one atomic operation.
LivenessStep(g) ==
    /\ gor[g].pc = "Liveness"
    /\ gor[g].k <= Len(checkers)
    /\ \E err \in {Nil, ErrProbe} :
           LET l == checkers[gor[g].k]
               a == LivenessIter(l, err, [liveness |-> gor[g].ok, res |-> gor[g].res,
                                          calls |-> gor[g].calls,
                                          notReadyCount |-> notReadyCount])
           IN  /\ gor' = [gor EXCEPT ![g] = [pc |-> "Liveness", k |-> gor[g].k + 1,
                                             ok |-> a.liveness, res |-> a.res,
                                             calls |-> a.calls]]
               /\ notReadyCount' = a.notReadyCount
    /\ UNCHANGED <<decl, checkers, maxNotReadyConfig, last, streak, started, log>>

\* Goroutine g leaves the loop and returns its pair to its caller.
Return(g) ==
    /\ gor[g].pc # "idle"
    /\ gor[g].k > Len(checkers)
    /\ gor' = [gor EXCEPT ![g] = IdleFrame]
    /\ UNCHANGED <<decl, checkers, maxNotReadyConfig, notReadyCount, last, streak,
                   started, log>>

ConcNext ==
    \E g \in Goroutines :
        \/ StartReadiness(g)
        \/ StartLiveness(g)
        \/ ReadinessStep(g)
        \/ LivenessStep(g)
        \/ Return(g)

ConcSpec == ConcInit /\ [][ConcNext]_vars

----------------------------------------------------------------------------
(* Vocabulary of the properties *)

\* s has an entry in the threshold map.
Thresholded(s) == s \in DOMAIN maxNotReadyConfig

\* s implements ReadinessThresholder and answers the same value >= 0 every time.
DeclaresThreshold(s) ==
    /\ decl[s].impl
    /\ decl[s].first = decl[s].second
    /\ IsNonNegative(decl[s].first)

\* s does not implement ReadinessThresholder, or answers a negative value when
\* NewHealth asks whether it has a threshold.
DeclaresNone(s) == ~decl[s].impl \/ ~IsNonNegative(decl[s].first)

\* The probe that returned last was a Liveness probe in which s's own check succeeded.
LivenessPassed(s) == last.probe = "Liveness" /\ last.errs[s] = Nil

Up == HealthStatus(HealthStatusUp, Nil)

----------------------------------------------------------------------------
(* C1 *)

\* C1: for an indicator that declares a threshold T >= 0 and whose own Liveness
\* check succeeds, a Liveness probe after exactly T+1 consecutive failing
\* Readiness probes reports it UNAVAILABLE, and one after exactly T reports it UP.
EscalatesAfterThresholdPlusOne ==
    \A s \in Range(checkers) :
        (DeclaresThreshold(s) /\ decl[s].first.hi = 0 /\ LivenessPassed(s)) =>
            /\ streak[s] = decl[s].first.lo + 1 =>
                   last.res[s].Status = HealthUnavailable
            /\ streak[s] = decl[s].first.lo => last.res[s] = Up

----------------------------------------------------------------------------
(* C2 *)

\* C2: a successful Readiness check of a thresholded indicator leaves its counter
\* at 0, the counter is the number of Readiness failures since the last success,
\* and a streak of at most T failures is tolerated: Liveness reports the
\* indicator UP when its own check succeeds.
ResetThenToleratesThreshold ==
    \A s \in Range(checkers) :
        Thresholded(s) =>
            /\ (last.probe = "Readiness" /\ last.errs[s] = Nil) => notReadyCount[s] = 0
            /\ notReadyCount[s] = streak[s]
            /\ ( /\ IsNonNegative(maxNotReadyConfig[s])
                 /\ LivenessPassed(s)
                 /\ ~Exceeds(streak[s], maxNotReadyConfig[s]) ) => last.res[s] = Up

----------------------------------------------------------------------------
(* C3 *)

\* C3: an indicator without a threshold, or with a negative one, is reported UP by
\* every Liveness probe in which its own check succeeds, however long its streak
\* of Readiness failures, and Liveness returns false only when some indicator's
\* own check fails or some indicator has a threshold.
NoThresholdNeverEscalates ==
    last.probe = "Liveness" =>
        /\ \A s \in Range(checkers) :
               (DeclaresNone(s) /\ last.errs[s] = Nil) => last.res[s] = Up
        /\ ~last.ok =>
               \E s \in Range(checkers) : last.errs[s] # Nil \/ ~DeclaresNone(s)

\* An indicator that declares -1 has failed Readiness MaxFail times in a row, and
\* a Liveness probe in which every own check succeeded has returned.
NoThresholdLongStreakProbed ==
    /\ last.probe = "Liveness"
    /\ last.ok
    /\ \E s \in Range(checkers) :
           decl[s].impl /\ DeclaresNone(s) /\ streak[s] = MaxFail

----------------------------------------------------------------------------
(* C4 *)

\* C4: Readiness returns false exactly when some indicator's Readiness call
\* returned an error; so it returns true for an empty list of indicators.
ReadinessFalseIffSomeError ==
    last.probe = "Readiness" =>
        (~last.ok <=> \E s \in Range(checkers) : last.errs[s] # Nil)

\* A Readiness probe returned false with one indicator failing beyond its
\* threshold and another succeeding.
ReadinessMixedProbed ==
    /\ last.probe = "Readiness"
    /\ ~last.ok
    /\ \E s, t \in Range(checkers) :
           /\ last.errs[s] # Nil /\ last.errs[t] = Nil
           /\ Thresholded(s) /\ notReadyCount[s] >= 2

----------------------------------------------------------------------------
(* C5 *)

\* C5: Liveness returns false exactly when some entry of the detail map is not UP;
\* an entry is DOWN when the indicator's own check failed, UNAVAILABLE when its
\* own check succeeded and its counter exceeds its threshold, and UP otherwise.
LivenessFalseIffDownOrUnavailable ==
    last.probe = "Liveness" =>
        /\ ~last.ok <=> \E s \in Range(checkers) : last.res[s].Status # HealthStatusUp
        /\ \A s \in Range(checkers) :
               last.res[s].Status =
                   IF last.errs[s] # Nil THEN HealthStatusDown
                   ELSE IF Thresholded(s) /\ Exceeds(notReadyCount[s], maxNotReadyConfig[s])
                   THEN HealthUnavailable
                   ELSE HealthStatusUp

----------------------------------------------------------------------------
(* C7 *)

\* C7: in the detail map of Liveness an entry is DOWN exactly when the indicator's
\* own check failed, with that error as cause, and is UNAVAILABLE with the
\* sentinel as cause exactly when its own check succeeded and its counter is
\* greater than its threshold.
StatusTellsFailureKinds ==
    last.probe = "Liveness" =>
        \A s \in Range(checkers) :
            /\ last.res[s].Status = HealthStatusDown <=> last.errs[s] # Nil
            /\ last.errs[s] # Nil => last.res[s].Err = last.errs[s]
            /\ last.res[s] = HealthStatus(HealthUnavailable, ErrUnavailable) <=>
                   /\ last.errs[s] = Nil
                   /\ Thresholded(s)
                   /\ Exceeds(notReadyCount[s], maxNotReadyConfig[s])

----------------------------------------------------------------------------
(* C8 *)

\* C8: a Liveness probe leaves every counter, every threshold and the list of
\* indicators as they were.
LivenessOnlyReads ==
    [][Liveness => UNCHANGED <<notReadyCount, maxNotReadyConfig, checkers>>]_vars

\* A Liveness probe has reported an indicator beyond its threshold, and the
\* indicator's counter is still above 0.
ExceededReportedCounterKept ==
    /\ last.probe = "Liveness"
    /\ \E s \in Range(checkers) :
           /\ Thresholded(s)
           /\ last.errs[s] = Nil
           /\ last.res[s].Err = ErrUnavailable
           /\ notReadyCount[s] > 0

----------------------------------------------------------------------------
(* C9 *)

\* The entry of s in the detail map of a probe of the given kind in which s is
\* the only indicator, its call returning err.
EntryAlone(kind, s, err) ==
    IF kind = "Liveness"
    THEN LivenessIter(s, err, [liveness |-> TRUE, res |-> EmptyMap, calls |-> <<>>,
                               notReadyCount |-> notReadyCount]).res[s]
    ELSE ReadinessIter(s, err, [readiness |-> TRUE, res |-> EmptyMap, calls |-> <<>>,
                                notReadyCount |-> notReadyCount]).res[s]

\* C9: the detail map of either probe has an entry for every registered indicator,
\* and each entry is the one the indicator's own result and counter give, whatever
\* the other indicators returned.
EveryIndicatorReportedOnItsOwn ==
    last.probe # "none" =>
        /\ DOMAIN last.res = Range(checkers)
        /\ \A s \in Range(checkers) :
               last.res[s] = EntryAlone(last.probe, s, last.errs[s])

\* A Liveness probe whose first indicator failed its own check has reported the
\* second indicator too, beyond its threshold.
LaterIndicatorProbedAfterFailure ==
    /\ last.probe = "Liveness"
    /\ Len(checkers) = 2
    /\ last.errs[checkers[1]] # Nil
    /\ last.errs[checkers[2]] = Nil
    /\ last.res[checkers[2]] = HealthStatus(HealthStatusDown, ErrUnavailable)

----------------------------------------------------------------------------
(* C10 *)

\* The two maps of NewHealth have the same keys, the indicators that answered a
\* threshold >= 0 when NewHealth asked, every stored threshold is >= 0, and the
\* counters are 0 until the first probe.
ThresholdMapsResolved ==
    /\ DOMAIN maxNotReadyConfig = DOMAIN notReadyCount
    /\ DOMAIN maxNotReadyConfig =
           {s \in Range(checkers) : decl[s].impl /\ IsNonNegative(decl[s].first)}
    /\ \A s \in DOMAIN maxNotReadyConfig : IsNonNegative(maxNotReadyConfig[s])
    /\ (last.probe = "none" /\ started = 0) =>
           \A s \in DOMAIN notReadyCount : notReadyCount[s] = 0

\* C10: NewHealth resolves the thresholds once: the maps are as above after
\* construction, whatever an indicator answers on a later call, and no probe
\* changes the threshold map or the keys of the counter map.
ThresholdsResolvedOnce ==
    /\ []ThresholdMapsResolved
    /\ [][/\ maxNotReadyConfig' = maxNotReadyConfig
          /\ DOMAIN notReadyCount' = DOMAIN notReadyCount]_vars

----------------------------------------------------------------------------
(* C6 *)

RECURSIVE Replay(_)
\* The value of a counter that starts at 0 after the updates of l, one at a time.
Replay(l) ==
    IF l = <<>> THEN 0
    ELSE IF l[Len(l)][2] = "Store" THEN 0
    ELSE Replay(SubSeq(l, 1, Len(l) - 1)) + 1

\* C6: with goroutines inside Readiness and Liveness probes at once, every counter
\* is what its updates give when applied one at a time in the order they took
\* effect, so no reset and no increment is lost, and no counter is negative.
CounterIsSequentialOutcome ==
    \A s \in DOMAIN notReadyCount :
        /\ notReadyCount[s] = Replay(log[s])
        /\ notReadyCount[s] >= 0

\* Two goroutines are in the middle of Readiness probes at once, each having
\* updated the counter of the first indicator in its current probe; that counter
\* has been reset and incremented, the last update being an increment made while
\* the other goroutine's probe was under way.
ConcurrentReadinessMixed ==
    /\ Len(checkers) = 2
    /\ \A g \in Goroutines : gor[g].pc = "Readiness" /\ gor[g].k = 2
    /\ checkers[1] \in DOMAIN notReadyCount
    /\ LET l == log[checkers[1]]
       IN  /\ Len(l) >= 3
           /\ \E i \in DOMAIN l : l[i][2] = "Store"
           /\ l[Len(l)][2] = "Add"
           /\ l[Len(l)][1] # l[Len(l) - 1][1]

----------------------------------------------------------------------------
(* What the code does where C1, C2, C5 and C7 say otherwise *)

\* For a threshold T that an int32 holds, a Liveness probe in which the
\* indicator's own check succeeds reports it DOWN with cause ErrUnavailable after
\* more than T consecutive Readiness failures, and UP after at most T.
EscalatesAsDown ==
    \A s \in Range(checkers) :
        (Thresholded(s) /\ maxNotReadyConfig[s].hi = 0 /\ LivenessPassed(s)) =>
            last.res[s] = IF streak[s] > maxNotReadyConfig[s].lo
                          THEN HealthStatus(HealthStatusDown, ErrUnavailable)
                          ELSE Up

\* Liveness returns false exactly when some entry is not UP, and no entry of its
\* detail map is UNAVAILABLE.
LivenessFoldsEntries ==
    last.probe = "Liveness" =>
        /\ ~last.ok <=> \E s \in Range(checkers) : last.res[s] # Up
        /\ \A s \in Range(checkers) : last.res[s].Status # HealthUnavailable

----------------------------------------------------------------------------
(* C11 *)

\* C11: in the detail map of Readiness an entry is UP with no cause exactly when
\* the indicator's Readiness call returned nil, and UNAVAILABLE with the returned
\* error as cause exactly when it returned an error; no entry is DOWN, and the
\* sentinel is the cause only when it is the error the indicator returned.
ReadinessReportsOwnError ==
    last.probe = "Readiness" =>
        \A s \in Range(checkers) :
            /\ last.res[s] = Up <=> last.errs[s] = Nil
            /\ last.res[s] = HealthStatus(HealthUnavailable, last.errs[s]) <=>
                   last.errs[s] # Nil
            /\ last.res[s].Status # HealthStatusDown
            /\ last.res[s].Err = last.errs[s]

\* A Readiness probe has returned in which an indicator already beyond its
\* threshold failed with an error of its own and another indicator succeeded.
ReadinessFailedBeyondThreshold ==
    /\ last.probe = "Readiness"
    /\ \E s, t \in Range(checkers) :
           /\ Thresholded(s)
           /\ last.errs[s] = ErrProbe
           /\ Exceeds(notReadyCount[s], maxNotReadyConfig[s])
           /\ notReadyCount[s] >= 2
           /\ last.errs[t] = Nil

----------------------------------------------------------------------------
(* C12 *)

\* C12: the comparison of Liveness is exact for every stored threshold T >= 0,
\* also one that an int32 cannot hold: an indicator whose counter is at most T
\* and whose own Liveness check succeeds is reported UP.
ThresholdComparisonExact ==
    \A s \in Range(checkers) :
        ( /\ Thresholded(s)
          /\ IsNonNegative(maxNotReadyConfig[s])
          /\ LivenessPassed(s)
          /\ ~Exceeds(notReadyCount[s], maxNotReadyConfig[s]) ) =>
            last.res[s].Status = HealthStatusUp

----------------------------------------------------------------------------
(* C13 *)

\* The calls a probe of the given kind makes when it calls the check of that kind
\* of every registered indicator once, in registration order, and nothing else.
OneCallEach(kind) == [k \in 1 .. Len(checkers) |-> <<kind, checkers[k]>>]

\* The probe that returned last made exactly the calls of OneCallEach.
FannedOutInOrder == last.probe # "none" => last.calls = OneCallEach(last.probe)

\* C13: a probe calls the check of its own kind of every registered indicator
\* exactly once, in registration order, calls no check of the other kind, and
\* has made all its calls when it returns; so a Readiness probe raises the
\* counter of an indicator whose check failed by exactly one and leaves the
\* counter of one whose check succeeded at 0.
SequentialFanOut ==
    /\ []FannedOutInOrder
    /\ [][Readiness =>
            \A s \in DOMAIN notReadyCount :
                notReadyCount'[s] = IF last'.errs[s] = Nil THEN 0
                                    ELSE notReadyCount[s] + 1]_vars

\* A Readiness probe over two thresholded indicators has returned in which both
\* checks failed, for the second probe in a row: both counters are 2.
BothFailedTwice ==
    /\ last.probe = "Readiness"
    /\ Len(checkers) = 2
    /\ Len(last.calls) = 2
    /\ \A s \in Range(checkers) :
           /\ Thresholded(s)
           /\ last.errs[s] # Nil
           /\ streak[s] = 2
           /\ notReadyCount[s] = 2

\* ConcSpec: the calls a goroutine inside a probe has made are the first k - 1
\* calls of OneCallEach, and it returns only with all of them made.
FramesCallInOrder ==
    \A g \in Goroutines :
        gor[g].pc # "idle" =>
            /\ gor[g].k \in 1 .. Len(checkers) + 1
            /\ gor[g].calls = SubSeq(OneCallEach(gor[g].pc), 1, gor[g].k - 1)

=============================================================================
